---- MODULE Spec2Model ----
(***************************************************************************)
(* MeBus: a typed, runtime-validated message bus on top of the browser's   *)
(* window event target (src/index.ts, zod variant; src/unnamed/part_000    *)
(* holds the same class once more for zod and once for io-ts).             *)
(*                                                                         *)
(* The model holds                                                         *)
(*   - the window's event listener list (addEventListener with an          *)
(*     AbortSignal, dispatchEvent),                                        *)
(*   - two MeBus instances that share that window, each with its own       *)
(*     immutable eventSchema object,                                       *)
(*   - the JavaScript call stack of the broadcasts in progress: a handler  *)
(*     may call subscribe, publish or an unsubscribe function while a      *)
(*     broadcast is running.                                               *)
(* A handler is a caller-supplied callback: what it does when it is        *)
(* invoked is an input, chosen anew at every invocation. Handlers treat    *)
(* the payload they receive as read-only.                                  *)
(***************************************************************************)
EXTENDS Integers, Sequences, FiniteSets, TLC

\* ----------------------------------------------------------------- bounds

\* subscribe calls that register a listener, over the whole run
MaxSubs == 3
\* broadcasts in progress at once (a publish from inside a handler nests)
MaxDepth == 2

\* ----------------------------------------------------------------- values

NumV(n) == [k |-> "num", n |-> n]
StrV(len) == [k |-> "str", n |-> len]
NoValue == [k |-> "none", n |-> 0]

\* The payloads offered to publish and dispatchEvent: the numbers -1 and 2
\* and a string of length 2.
Values == {NumV(-1), NumV(2), StrV(2)}

\* ---------------------------------------------------------------- schemas

\* The event names callers use. "order" and "note" are keys of a registry,
\* "toString" is a key of no registry but a property every object literal
\* inherits from Object.prototype, "ghost" is no property at all.
Names == {"order", "note", "toString", "ghost"}
ProtoNames == {"toString"}

Buses == {"A", "B"}

\* The eventSchema object each bus was constructed with (its own keys):
\*   A: { order: z.number().min(1).multipleOf(2),
\*        note:  z.string().transform((s) => s.length) }
\*   B: { order: z.number() }
OwnKeys(b) == IF b = "A" THEN {"order", "note"} ELSE {"order"}

EventSchema(b, type) ==
  IF b = "A" THEN (IF type = "order" THEN "even" ELSE "strlen") ELSE "num"

\* this.eventSchema[type]: a property read. An own key gives its schema, a
\* name inherited from Object.prototype gives that (truthy) function, any
\* other name gives undefined.
Lookup(b, type) ==
  IF type \in OwnKeys(b) THEN EventSchema(b, type)
  ELSE IF type \in ProtoNames THEN "proto"
  ELSE "undefined"

\* The (bus, name) pairs callers pass to subscribe and publish: every name on
\* bus A; on bus B its own key and "note", which only A's registry has.
Callers ==
  ({"A"} \X Names) \cup ({"B"} \X {"order", "note"})

\* The events other code dispatches on window, as <<type, is a CustomEvent,
\* detail>>: a number under "order" and under "note", a string under
\* "toString", and an "order" event that is no CustomEvent.
ForeignEvents ==
  {<<"order", TRUE, NumV(-1)>>, <<"note", TRUE, NumV(2)>>,
   <<"toString", TRUE, StrV(2)>>, <<"order", FALSE, NoValue>>}

\* if (!schema)
Falsy(schema) == schema = "undefined"

Ok(d) == [success |-> TRUE, data |-> d, errors |-> <<>>]
Fail(msgs) == [success |-> FALSE, data |-> NoValue, errors |-> msgs]

\* schema.safeParse(payload) for the three schemas above. A type mismatch
\* is one issue and ends the parse; the checks of a number all run and each
\* failing one adds an issue.
SafeParse(schema, v) ==
  CASE schema = "num" ->
         IF v.k = "num" THEN Ok(v)
         ELSE Fail(<<"Expected number, received string">>)
    [] schema = "even" ->
         IF v.k # "num" THEN Fail(<<"Expected number, received string">>)
         ELSE LET low == IF v.n < 1
                         THEN <<"Number must be greater than or equal to 1">>
                         ELSE <<>>
                  odd == IF v.n % 2 # 0
                         THEN <<"Number must be a multiple of 2">>
                         ELSE <<>>
              IN IF low \o odd = <<>> THEN Ok(v) ELSE Fail(low \o odd)
    [] schema = "strlen" ->
         IF v.k = "str" THEN Ok(NumV(v.n))
         ELSE Fail(<<"Expected string, received number">>)

\* errors.map((e) => e.message).join("\n")
RECURSIVE Join(_)
Join(msgs) ==
  IF msgs = <<>> THEN ""
  ELSE IF Len(msgs) = 1 THEN msgs[1]
  ELSE msgs[1] \o "\n" \o Join(Tail(msgs))

\* `[MeBus] No schema found for event: ${type}`
NoSchemaMsg(type) == "[MeBus] No schema found for event: " \o type
NotAFunctionMsg == "schema.safeParse is not a function"

\* ------------------------------------------------------------------ state

VARIABLES
  subs,       \* subs[id]: the subscription made by the id-th registering
              \*   subscribe call: the bus, the event type, the schema the
              \*   listener closure captured
  listeners,  \* the window's event listener list: ids, in list order
  aborted,    \* ids whose AbortController has been aborted
  stack,      \* the broadcasts in progress, innermost last
  last        \* what the latest step did (the call, its outcome)

vars == <<subs, listeners, aborted, stack, last>>

\* A step's record: the call (op, bus, name, value, id), how it ended
\* (outcome, msg), the listener list and the aborted ids before it (pre,
\* preAb), the call depth it was made at (0: not from inside a handler) and,
\* for a return, the listeners of the broadcast's clone not yet visited
\* (pending) and how many of its listeners raised (raised).
Ev(op, bus, name, value, outcome, msg, id, depth, pending) ==
  [op |-> op, bus |-> bus, name |-> name, value |-> value,
   outcome |-> outcome, msg |-> msg, id |-> id, depth |-> depth,
   pre |-> listeners, preAb |-> aborted, pending |-> pending, raised |-> 0]

Created == 1..Len(subs)

Init ==
  /\ subs = <<>>
  /\ listeners = <<>>
  /\ aborted = {}
  /\ stack = <<>>
  /\ last = [op |-> "init", bus |-> "", name |-> "", value |-> NoValue,
             outcome |-> "ok", msg |-> "", id |-> 0, depth |-> 0,
             pre |-> <<>>, preAb |-> {}, pending |-> 0, raised |-> 0]

\* ------------------------------------------------- the window's listeners

\* A fault: addEventListener that puts the new listener first.
AddListenerFront(ls, id) == <<id>> \o ls

\* A fault: the handler itself registered as the callback, so that
\* addEventListener drops a second registration for the same bus and type.
AddListenerDedup(ls, id) ==
  IF \E x \in {ls[i] : i \in DOMAIN ls} :
       subs[x].bus = subs'[id].bus /\ subs[x].type = subs'[id].type
  THEN ls
  ELSE Append(ls, id)

\* window.addEventListener(type, callback, { signal }): every subscribe
\* passes a fresh closure, so the listener is always appended.
AddListener(ls, id) == Append(ls, id)

RemoveId(ls, id) == SelectSeq(ls, LAMBDA x : x # id)

\* A fault: the listener is registered without the signal, and abort
\* removes nothing.
AbortUnwired(ls, ab, id) == ls

\* A fault: one AbortController per event type, so that abort removes
\* every listener of the subscription's type.
AbortByType(ls, ab, id) ==
  SelectSeq(ls, LAMBDA x : subs[x].type # subs[id].type)

\* A fault: removal by listeners.splice(listeners.indexOf(cb), 1). Once
\* cb is gone, indexOf gives -1 and splice takes the last listener off.
AbortSplice(ls, ab, id) ==
  IF id \in {ls[i] : i \in DOMAIN ls}
  THEN RemoveId(ls, id)
  ELSE SubSeq(ls, 1, Len(ls) - 1)

\* abortController.abort(): the signal's abort step removes the one listener
\* that was registered with it; on a signal already aborted it does nothing.
Abort(ls, ab, id) == IF id \in ab THEN ls ELSE RemoveId(ls, id)

Range(s) == {s[i] : i \in DOMAIN s}

\* A fault: a dispatch that does not read the removed flag.
RemovedNever(ls, id) == FALSE

\* The listener's removed flag, which dispatch reads before it invokes a
\* listener of its clone: set once the listener has left the list.
Removed(ls, id) == id \notin Range(ls)

\* dispatchEvent clones the listener list before it invokes anything; only
\* the listeners of the event's type are invoked.
Snapshot(ls, type) == SelectSeq(ls, LAMBDA id : subs[id].type = type)

\* A fault: a dispatch that iterates the live listener list, so that a
\* listener added for the event's type joins the broadcast in progress.
CloneOnAddLive(snap, type, newType, id) ==
  IF newType = type THEN Append(snap, id) ELSE snap

\* addEventListener(newType, ...) while a dispatch of an event of some type
\* is in progress: the dispatch iterates its clone, which the call leaves as
\* it is.
CloneOnAdd(snap, type, newType, id) == snap

\* A fault: a deferred dispatch, whose call returns before the listeners
\* have run.
DispatchDoneEarly(f) == TRUE

\* dispatchEvent returns once every listener of its clone has been visited.
DispatchDone(f) == f.idx > Len(f.snap)

\* ------------------------------------------------------------------ MeBus

\* A fault: new CustomEvent(type, { detail: validation.data }).
EnvelopeDecoded(validation, payload) == validation.data

\* new CustomEvent(type, { detail: payload }): the payload as it was passed
\* to publish.
Envelope(validation, payload) == payload

\* A fault: publish that does not look at validation.success.
PublishOutcomeUnchecked(b, type, v) ==
  IF Falsy(Lookup(b, type))
  THEN [outcome |-> "SchemaNotFound", msg |-> NoSchemaMsg(type)]
  ELSE IF Lookup(b, type) = "proto"
  THEN [outcome |-> "TypeError", msg |-> NotAFunctionMsg]
  ELSE [outcome |-> "ok", msg |-> ""]

\* publish up to its dispatchEvent: how the call ends when it raises.
PublishOutcome(b, type, v) ==
  LET schema == Lookup(b, type) IN
  IF Falsy(schema)
  THEN [outcome |-> "SchemaNotFound", msg |-> NoSchemaMsg(type)]
  ELSE IF schema = "proto"
  THEN [outcome |-> "TypeError", msg |-> NotAFunctionMsg]
  ELSE LET validation == SafeParse(schema, v) IN
       IF ~validation.success
       THEN [outcome |-> "ValidationError", msg |-> Join(validation.errors)]
       ELSE [outcome |-> "ok", msg |-> ""]

\* subscribe up to its addEventListener.
SubscribeOutcome(b, type) ==
  IF Falsy(Lookup(b, type))
  THEN [outcome |-> "SchemaNotFound", msg |-> NoSchemaMsg(type)]
  ELSE [outcome |-> "ok", msg |-> ""]

\* A fault: listener(payload) in place of listener(validation.data).
ListenerResultRaw(schema, custom, detail) ==
  IF ~custom THEN [kind |-> "ignore", msg |-> "", data |-> NoValue]
  ELSE IF schema = "proto"
  THEN [kind |-> "raise", msg |-> NotAFunctionMsg, data |-> NoValue]
  ELSE IF ~SafeParse(schema, detail).success
  THEN [kind |-> "raise", msg |-> Join(SafeParse(schema, detail).errors),
        data |-> NoValue]
  ELSE [kind |-> "call", msg |-> "", data |-> detail]

\* A fault: a closure that passes e.detail on without validating it.
ListenerResultUnchecked(schema, custom, detail) ==
  IF ~custom THEN [kind |-> "ignore", msg |-> "", data |-> NoValue]
  ELSE [kind |-> "call", msg |-> "", data |-> detail]

\* A fault: a closure that drops a rejected payload silently.
ListenerResultSwallow(schema, custom, detail) ==
  IF ~custom THEN [kind |-> "ignore", msg |-> "", data |-> NoValue]
  ELSE IF schema = "proto"
  THEN [kind |-> "raise", msg |-> NotAFunctionMsg, data |-> NoValue]
  ELSE IF ~SafeParse(schema, detail).success
  THEN [kind |-> "ignore", msg |-> "", data |-> NoValue]
  ELSE [kind |-> "call", msg |-> "", data |-> SafeParse(schema, detail).data]

\* The closure subscribe registers, run on an event e of its type:
\* "ignore" (not a CustomEvent), "raise" (msg) or "call" (listener(data)).
ListenerResult(schema, custom, detail) ==
  IF ~custom THEN [kind |-> "ignore", msg |-> "", data |-> NoValue]
  ELSE IF schema = "proto"
  THEN [kind |-> "raise", msg |-> NotAFunctionMsg, data |-> NoValue]
  ELSE LET validation == SafeParse(schema, detail) IN
       IF ~validation.success
       THEN [kind |-> "raise", msg |-> Join(validation.errors),
             data |-> NoValue]
       ELSE [kind |-> "call", msg |-> "", data |-> validation.data]

\* A broadcast in progress. The event (type, custom, detail), the clone of
\* the listener list (snap) and the place in it (idx) are dispatchEvent's;
\* the rest records what happened: who dispatched (origin: a bus or
\* "foreign"), the value passed to publish (value), the handler that
\* published (caller, 0 for none), the ids aborted when it started (ab0),
\* the number of subscriptions made before it started (n0), the listeners
\* whose handler published during it (inner),
\* the handler calls made (calls), what listeners raised (raised), the
\* listeners passed over because they had been removed (skipped) and the
\* listeners whose unsubscribe function had been called by the time the
\* broadcast reached them (gone).
NewFrame(type, custom, detail, value, origin, caller) ==
  [type |-> type, custom |-> custom, detail |-> detail, value |-> value,
   origin |-> origin, snap |-> Snapshot(listeners, type), idx |-> 1,
   calls |-> <<>>, raised |-> <<>>, skipped |-> {}, gone |-> {},
   ab0 |-> aborted, n0 |-> Len(subs), inner |-> {}, caller |-> caller]

\* ------------------------------------------------ calls made by the host

Idle == stack = <<>>

\* bus.subscribe(type, listener)
Subscribe(b, type) ==
  /\ Idle
  /\ LET r == SubscribeOutcome(b, type)
         id == Len(subs) + 1
     IN IF r.outcome # "ok"
        THEN /\ last' = Ev("subscribe", b, type, NoValue, r.outcome, r.msg,
                           0, 0, 0)
             /\ UNCHANGED <<subs, listeners, aborted, stack>>
        ELSE /\ Len(subs) < MaxSubs
             /\ subs' = Append(subs, [bus |-> b, type |-> type,
                                      schema |-> Lookup(b, type)])
             /\ listeners' = AddListener(listeners, id)
             /\ last' = Ev("subscribe", b, type, NoValue, "ok", "", id, 0, 0)
             /\ UNCHANGED <<aborted, stack>>

\* The function subscribe returned for subscription id, called.
Unsubscribe(id) ==
  /\ Idle
  /\ id \in Created
  /\ listeners' = Abort(listeners, aborted, id)
  /\ aborted' = aborted \cup {id}
  /\ last' = Ev("unsubscribe", subs[id].bus, subs[id].type, NoValue, "ok",
                "", id, 0, 0)
  /\ UNCHANGED <<subs, stack>>

\* bus.publish(type, payload), up to the start of its broadcast.
Publish(b, type, v) ==
  /\ Idle
  /\ LET r == PublishOutcome(b, type, v) IN
     /\ last' = Ev("publish", b, type, v, r.outcome, r.msg, 0, 0, 0)
     /\ stack' = IF r.outcome = "ok"
                 THEN <<NewFrame(type, TRUE,
                                 Envelope(SafeParse(Lookup(b, type), v), v),
                                 v, b, 0)>>
                 ELSE stack
     /\ UNCHANGED <<subs, listeners, aborted>>

\* window.dispatchEvent by code that is not a MeBus: a CustomEvent with any
\* detail, or an event that is no CustomEvent.
ForeignDispatch(type, custom, v) ==
  /\ Idle
  /\ stack' = <<NewFrame(type, custom, v, v, "foreign", 0)>>
  /\ last' = Ev("dispatch", "foreign", type, v, "ok", "", 0, 0, 0)
  /\ UNCHANGED <<subs, listeners, aborted>>

\* ------------------------------------------- a broadcast, listener by
\* listener (the inner invoke of dispatchEvent)

Top == stack[Len(stack)]
Running == stack # <<>> /\ ~DispatchDone(Top)
Cur == Top.snap[Top.idx]
CurResult == ListenerResult(subs[Cur].schema, Top.custom, Top.detail)

\* A fault: a dispatch that gives up at the first listener that raises.
VisitedStopOnRaise(called, raisedMsg) ==
  [Top EXCEPT !.idx = IF raisedMsg # "" THEN Len(Top.snap) + 1 ELSE @ + 1,
              !.calls = IF called
                        THEN Append(@, [id |-> Cur, arg |-> CurResult.data])
                        ELSE @,
              !.raised = IF raisedMsg # ""
                         THEN Append(@, [id |-> Cur, msg |-> raisedMsg])
                         ELSE @,
              !.gone = IF Cur \in aborted THEN @ \cup {Cur} ELSE @]

\* The top frame after its current listener has been visited.
Visited(called, raisedMsg) ==
  [Top EXCEPT !.idx = @ + 1,
              !.calls = IF called
                        THEN Append(@, [id |-> Cur, arg |-> CurResult.data])
                        ELSE @,
              !.raised = IF raisedMsg # ""
                         THEN Append(@, [id |-> Cur, msg |-> raisedMsg])
                         ELSE @,
              !.gone = IF Cur \in aborted THEN @ \cup {Cur} ELSE @]

SetTop(f) == [stack EXCEPT ![Len(stack)] = f]

\* The listener was removed after the clone was taken: it is not invoked.
InvokeSkip ==
  /\ Running
  /\ Removed(listeners, Cur)
  /\ stack' = SetTop([Top EXCEPT !.idx = @ + 1,
                                 !.skipped = @ \cup {Cur},
                                 !.gone = IF Cur \in aborted
                                          THEN @ \cup {Cur} ELSE @])
  /\ last' = Ev("skip", subs[Cur].bus, Top.type, Top.detail, "ok", "", Cur,
                Len(stack), 0)
  /\ UNCHANGED <<subs, listeners, aborted>>

\* The closure returns or raises without calling the handler. What a
\* listener raises is reported to the window's error path and the broadcast
\* goes on with the next listener.
InvokeNoCall ==
  /\ Running
  /\ ~Removed(listeners, Cur)
  /\ CurResult.kind # "call"
  /\ stack' = SetTop(Visited(FALSE, CurResult.msg))
  /\ last' = Ev("invoke", subs[Cur].bus, Top.type, Top.detail,
                CurResult.kind, CurResult.msg, Cur, Len(stack), 0)
  /\ UNCHANGED <<subs, listeners, aborted>>

Delivers ==
  /\ Running
  /\ ~Removed(listeners, Cur)
  /\ CurResult.kind = "call"

HandlerErrorMsg == "handler error"

\* listener(validation.data), and the handler returns (threw = FALSE) or
\* throws.
HandlerPlain(threw) ==
  /\ Delivers
  /\ stack' = SetTop(Visited(TRUE, IF threw THEN HandlerErrorMsg ELSE ""))
  /\ last' = Ev("invoke", subs[Cur].bus, Top.type, Top.detail,
                IF threw THEN "threw" ELSE "call", "", Cur, Len(stack), 0)
  /\ UNCHANGED <<subs, listeners, aborted>>

\* The handler calls the unsubscribe function of subscription id.
HandlerUnsubscribe(id) ==
  /\ Delivers
  /\ id \in Created
  /\ listeners' = Abort(listeners, aborted, id)
  /\ aborted' = aborted \cup {id}
  /\ stack' = SetTop(Visited(TRUE, ""))
  /\ last' = Ev("unsubscribe", subs[id].bus, subs[id].type, NoValue, "ok",
                "", id, Len(stack), 0)
  /\ UNCHANGED subs

\* The handler calls bus.subscribe(type, ...), which registers. (A call
\* that raises is, for the broadcast, a handler that throws or, when the
\* handler catches it, one that returns: HandlerPlain.)
HandlerSubscribe(b, type) ==
  /\ Delivers
  /\ SubscribeOutcome(b, type).outcome = "ok"
  /\ Len(subs) < MaxSubs
  /\ subs' = Append(subs, [bus |-> b, type |-> type,
                           schema |-> Lookup(b, type)])
  /\ listeners' = AddListener(listeners, Len(subs) + 1)
  /\ stack' = [k \in DOMAIN stack |->
                 [SetTop(Visited(TRUE, ""))[k] EXCEPT
                    !.snap = CloneOnAdd(@, stack[k].type, type,
                                        Len(subs) + 1)]]
  /\ last' = Ev("subscribe", b, type, NoValue, "ok", "", Len(subs) + 1,
                Len(stack), 0)
  /\ UNCHANGED aborted

\* The handler calls bus.publish(type, v), which broadcasts: the inner
\* broadcast runs before the handler returns.
HandlerPublish(b, type, v) ==
  /\ Delivers
  /\ PublishOutcome(b, type, v).outcome = "ok"
  /\ Len(stack) < MaxDepth
  /\ stack' = Append(SetTop([Visited(TRUE, "") EXCEPT
                                !.inner = @ \cup {Cur}]),
                     NewFrame(type, TRUE,
                              Envelope(SafeParse(Lookup(b, type), v), v),
                              v, b, Cur))
  /\ last' = Ev("publish", b, type, v, "ok", "", Cur, Len(stack), 0)
  /\ UNCHANGED <<subs, listeners, aborted>>

\* A fault: a dispatch that throws to its caller what a listener raised.
DispatchOutcomeRethrow(f) ==
  IF f.raised # <<>>
  THEN [outcome |-> "ListenerError", msg |-> f.raised[1].msg]
  ELSE [outcome |-> "ok", msg |-> ""]

\* How window.dispatchEvent ends: what a listener raised has been reported
\* to the window's error path, and the call returns to publish, which has
\* nothing left to do.
DispatchOutcome(f) == [outcome |-> "ok", msg |-> ""]

\* dispatchEvent returns, and with it publish (or the foreign dispatch).
Return ==
  /\ stack # <<>>
  /\ DispatchDone(Top)
  /\ stack' = SubSeq(stack, 1, Len(stack) - 1)
  /\ last' = [Ev("return", Top.origin, Top.type, Top.detail,
                 DispatchOutcome(Top).outcome, DispatchOutcome(Top).msg,
                 Top.caller, Len(stack) - 1, Len(Top.snap) + 1 - Top.idx)
              EXCEPT !.raised = Len(Top.raised)]
  /\ UNCHANGED <<subs, listeners, aborted>>

Next ==
  \/ \E c \in Callers : Subscribe(c[1], c[2])
  \/ \E id \in 1..MaxSubs : Unsubscribe(id)
  \/ \E c \in Callers, v \in Values : Publish(c[1], c[2], v)
  \/ \E e \in ForeignEvents : ForeignDispatch(e[1], e[2], e[3])
  \/ InvokeSkip
  \/ InvokeNoCall
  \/ \E threw \in BOOLEAN : HandlerPlain(threw)
  \/ \E id \in 1..MaxSubs : HandlerUnsubscribe(id)
  \/ \E c \in Callers : HandlerSubscribe(c[1], c[2])
  \/ \E c \in Callers, v \in Values : HandlerPublish(c[1], c[2], v)
  \/ Return

Spec == Init /\ [][Next]_vars

\* One bus alone on the window: every call is made through bus A and no
\* other code dispatches. InvokeNoCall is left out: its guard holds in no
\* state this specification reaches, which C17_SingleBus states.
SingleCallers == {"A"} \X Names

NextSingle ==
  \/ \E c \in SingleCallers : Subscribe(c[1], c[2])
  \/ \E id \in 1..MaxSubs : Unsubscribe(id)
  \/ \E c \in SingleCallers, v \in Values : Publish(c[1], c[2], v)
  \/ InvokeSkip
  \/ \E threw \in BOOLEAN : HandlerPlain(threw)
  \/ \E id \in 1..MaxSubs : HandlerUnsubscribe(id)
  \/ \E c \in SingleCallers : HandlerSubscribe(c[1], c[2])
  \/ \E c \in SingleCallers, v \in Values : HandlerPublish(c[1], c[2], v)
  \/ Return

SpecSingle == Init /\ [][NextSingle]_vars

\* ----------------------------------------------------------------- claims

Frames == Range(stack)

\* How many handler calls broadcast f has made on listener id.
CallCount(f, id) == Cardinality({i \in DOMAIN f.calls : f.calls[i].id = id})

\* The listeners of f's clone that dispatch has passed.
VisitedIds(f) == {f.snap[i] : i \in 1..(f.idx - 1)}

\* The listeners of list ls that are subscribed to event name n.
SubscribedTo(ls, n) == SelectSeq(ls, LAMBDA id : subs[id].type = n)

\* A broadcast that a publish with an accepted payload started.
Published(f) == f.origin \in Buses

\* What schema makes of payload v.
IsSchema(schema) == schema \in {"num", "even", "strlen"}
Accepts(schema, v) == IsSchema(schema) /\ SafeParse(schema, v).success
Decoded(schema, v) ==
  IF Accepts(schema, v) THEN SafeParse(schema, v).data ELSE NoValue
Messages(schema, v) == Join(SafeParse(schema, v).errors)

\* Name n is a key of the registry of bus b.
Registered(b, n) == n \in OwnKeys(b)

\* C1, as stated, and only for the listeners of the publishing bus itself
\* (whose schema is the one that accepted v): a publish(n, v) whose v the
\* schema accepts has, when it is through, called the handler of every
\* listener that was subscribed to n when publish was called exactly once,
\* with the decoded value of v.
C1_AsStated ==
  /\ (last.op = "publish" /\ last.outcome = "ok")
       => Top.snap = SubscribedTo(last.pre, last.name)
  /\ \A f \in Frames :
       (Published(f) /\ f.idx > Len(f.snap)) =>
         \A i \in DOMAIN f.snap :
           subs[f.snap[i]].bus = f.origin =>
             /\ CallCount(f, f.snap[i]) = 1
             /\ \A j \in DOMAIN f.calls :
                  f.calls[j].id = f.snap[i] =>
                    f.calls[j].arg
                      = Decoded(EventSchema(f.origin, f.type), f.value)

\* C1, amended: the broadcast of a publish(n, v) with accepted v is over the
\* listeners subscribed to n when publish was called; of those it has
\* passed, it has called exactly once, with the value that listener's own
\* schema decodes v to, the handler of each one that was still subscribed
\* when its turn came and whose own schema accepts v, and no other handler;
\* a listener is passed over only if it has been unsubscribed.
C1_Delivery ==
  /\ (last.op = "publish" /\ last.outcome = "ok")
       => Top.snap = SubscribedTo(last.pre, last.name)
  /\ \A f \in Frames :
       Published(f) =>
         /\ \A id \in VisitedIds(f) :
              /\ CallCount(f, id)
                   = IF id \notin f.skipped
                        /\ Accepts(subs[id].schema, f.value)
                     THEN 1 ELSE 0
              /\ id \in f.skipped => id \in aborted
         /\ \A j \in DOMAIN f.calls :
              /\ f.calls[j].id \in VisitedIds(f)
              /\ f.calls[j].arg
                   = Decoded(subs[f.calls[j].id].schema, f.value)

\* C1's case: a publish that is through has called two handlers, after an
\* unsubscribe.
C1_Witness ==
  \E f \in Frames :
    /\ Published(f)
    /\ f.idx > Len(f.snap)
    /\ Len(f.calls) >= 2
    /\ f.ab0 # {}

\* C2: a publish(n, v) with n registered and v rejected by schema[n] ends
\* in a validation error that carries the joined messages, starts no
\* broadcast (so no handler of any name is invoked) and leaves the listener
\* registry as it was.
C2_RejectedPublish ==
  (/\ last.op = "publish"
   /\ Registered(last.bus, last.name)
   /\ ~Accepts(EventSchema(last.bus, last.name), last.value))
  => /\ last.outcome = "ValidationError"
     /\ last.msg = Messages(EventSchema(last.bus, last.name), last.value)
     /\ stack = <<>>
     /\ listeners = last.pre
     /\ aborted = last.preAb

\* C2's case: a rejected publish with two violated constraints, while
\* listeners for the name are subscribed.
C2_Witness ==
  /\ last.op = "publish"
  /\ last.outcome = "ValidationError"
  /\ last.value = NumV(-1)
  /\ SubscribedTo(listeners, last.name) # <<>>

\* C3: subscribe and publish with a name that is no key of the registry end
\* in SchemaNotFoundError and change nothing: no listener is registered, no
\* broadcast is started.
C3_UnknownName ==
  (/\ last.op \in {"subscribe", "publish"}
   /\ ~Registered(last.bus, last.name))
  => /\ last.outcome = "SchemaNotFound"
     /\ listeners = last.pre
     /\ stack = <<>>

\* C4: no broadcast calls the handler of a subscription whose unsubscribe
\* function had been called before the broadcast started.
C4_NoCallAfterUnsubscribe ==
  \A f \in Frames :
    \A j \in DOMAIN f.calls : f.calls[j].id \notin f.ab0

\* C4's case: a broadcast for a name started after a subscription to that
\* name was unsubscribed, and it has called another handler.
C4_Witness ==
  \E f \in Frames :
    /\ \E id \in f.ab0 : subs[id].type = f.type
    /\ f.calls # <<>>

\* C5: within one broadcast the handlers are called in the order in which
\* their subscriptions were registered (subscription ids count the
\* registering subscribe calls).
C5_RegistrationOrder ==
  \A f \in Frames :
    \A i, j \in DOMAIN f.calls :
      i < j => f.calls[i].id < f.calls[j].id

\* C5's case: a broadcast has called two handlers, and a subscription made
\* before the second of them had been unsubscribed before.
C5_Witness ==
  \E f \in Frames :
    /\ Len(f.calls) >= 2
    /\ \E id \in f.ab0 : id < f.calls[2].id

\* The listener list without listener id.
Without(ls, id) == SelectSeq(ls, LAMBDA x : x # id)

\* C6: the first call of a subscription's unsubscribe function takes
\* exactly that listener off the list and leaves every other listener, of
\* the same name or another, in place and in order; the list always holds
\* exactly the subscriptions not unsubscribed, in registration order.
C6_RemovesExactlyOne ==
  /\ (last.op = "unsubscribe" /\ last.id \notin last.preAb) =>
       /\ listeners = Without(last.pre, last.id)
       /\ Len(listeners) = Len(last.pre) - 1
       /\ aborted = last.preAb \cup {last.id}
  /\ Range(listeners) = Created \ aborted
  /\ \A i, j \in DOMAIN listeners : i < j => listeners[i] < listeners[j]

\* C6's case: a first unsubscribe that leaves a listener of the same name
\* and a listener of another name subscribed.
C6_Witness ==
  /\ last.op = "unsubscribe"
  /\ last.id \notin last.preAb
  /\ \E a, b \in Range(listeners) :
       /\ subs[a].type = last.name
       /\ subs[b].type # last.name

\* C7: a second or later call of an unsubscribe function raises nothing and
\* changes nothing.
C7_UnsubscribeIdempotent ==
  (last.op = "unsubscribe" /\ last.id \in last.preAb) =>
    /\ last.outcome = "ok"
    /\ listeners = last.pre
    /\ aborted = last.preAb

\* C7's case: a repeated unsubscribe while a listener that was subscribed
\* later is on the list and another subscription has been unsubscribed too.
C7_Witness ==
  /\ last.op = "unsubscribe"
  /\ last.id \in last.preAb
  /\ \E a \in Range(listeners) : a > last.id
  /\ aborted # {last.id}

C9_ListenerRaises ==
  \A f \in Frames :
    \A id \in VisitedIds(f) \ f.skipped :
      (/\ f.custom
       /\ IsSchema(subs[id].schema)
       /\ ~Accepts(subs[id].schema, f.detail))
      => /\ \E r \in DOMAIN f.raised :
              /\ f.raised[r].id = id
              /\ f.raised[r].msg = Messages(subs[id].schema, f.detail)
         /\ CallCount(f, id) = 0

\* C9's case: a listener has raised two joined messages.
C9_Witness ==
  \E f \in Frames :
    \E r \in DOMAIN f.raised :
      f.raised[r].msg
        = "Number must be greater than or equal to 1\n"
            \o "Number must be a multiple of 2"

\* C10: when a broadcast returns, hence publish, every listener of its
\* clone has been visited; the handler that published is not resumed before.
C10_Synchronous ==
  /\ last.op = "return" => last.pending = 0
  /\ \A k \in 1..(Len(stack) - 1) :
       /\ stack[k + 1].caller \in VisitedIds(stack[k])
       /\ stack[k + 1].caller = stack[k].snap[stack[k].idx - 1]

\* C10's case: a publish over two listeners has returned.
C10_Witness ==
  /\ last.op = "return"
  /\ last.bus \in Buses
  /\ Len(SubscribedTo(last.pre, last.name)) >= 2

\* C11 as stated: the event a successful publish dispatches carries the
\* value the publisher's schema decodes the payload to.
C11_AsStated ==
  \A f \in Frames :
    Published(f) => f.detail = Decoded(EventSchema(f.origin, f.type), f.value)

\* C11: the event a successful publish dispatches carries the payload as it
\* was passed to publish; the decoded value is used for nothing but the
\* decision to dispatch.
C11_RawPayload ==
  /\ \A f \in Frames : Published(f) => f.detail = f.value
  /\ (last.op = "publish" /\ last.outcome = "ok") =>
       /\ Top.detail = last.value
       /\ Accepts(EventSchema(last.bus, last.name), last.value)

\* C11's case: a publish is in progress whose schema decodes the payload to
\* another value.
C11_Witness ==
  \E f \in Frames :
    /\ Published(f)
    /\ Decoded(EventSchema(f.origin, f.type), f.value) # f.value

\* C12 as stated: a listener of the clone whose unsubscribe function was
\* called while the broadcast was in progress, before its turn, is invoked
\* all the same (its handler is called when its schema accepts the detail).
C12_AsStated ==
  \A f \in Frames :
    \A id \in f.gone :
      (f.custom /\ Accepts(subs[id].schema, f.detail)) => CallCount(f, id) = 1

\* C12: a listener of the clone whose unsubscribe function was called while
\* the broadcast was in progress, before its turn, is passed over by that
\* broadcast: the cancellation takes effect at once, and no broadcast that
\* starts afterwards has the listener in its clone.
C12_InFlightCancel ==
  \A f \in Frames :
    /\ \A id \in f.gone :
         /\ id \notin f.ab0
         /\ id \in f.skipped
         /\ CallCount(f, id) = 0
    /\ Range(f.snap) \cap f.ab0 = {}

\* C12's case: in a publish's broadcast an earlier listener's handler has
\* been called, and a later listener, unsubscribed meanwhile, has had its
\* turn.
C12_Witness ==
  \E f \in Frames :
    /\ Published(f)
    /\ \E id \in f.gone :
         /\ Accepts(subs[id].schema, f.detail)
         /\ \E j \in DOMAIN f.calls : f.calls[j].id < id

\* C13: a listener whose unsubscribe function has been called is not run
\* again: no closure is run and no handler is called on a subscription that
\* is aborted at that moment, also when the broadcast had started before.
C13_NoNotificationAfterUnsubscribe ==
  /\ last.op = "invoke" => last.id \notin last.preAb
  /\ last.op = "skip" => last.id \in last.preAb
  /\ \A f \in Frames :
       /\ \A j \in DOMAIN f.calls : f.calls[j].id \notin f.gone
       /\ \A r \in DOMAIN f.raised : f.raised[r].id \notin f.gone

\* C13's case: the broadcast has just passed over a listener that was
\* subscribed when the broadcast started and that an earlier handler of the
\* same broadcast has unsubscribed.
C13_Witness ==
  /\ last.op = "skip"
  /\ stack # <<>>
  /\ last.id \in Top.gone
  /\ last.id \notin Top.ab0
  /\ Top.calls # <<>>

\* Whether listener id has raised in broadcast f.
HasRaised(f, id) == \E r \in DOMAIN f.raised : f.raised[r].id = id

\* C14 as stated: once a listener has raised in a broadcast, no listener
\* registered after it is run in that broadcast.
C14_AsStated ==
  \A f \in Frames :
    \A r \in DOMAIN f.raised :
      /\ \A j \in DOMAIN f.calls : f.calls[j].id <= f.raised[r].id
      /\ \A q \in DOMAIN f.raised : f.raised[q].id <= f.raised[r].id

\* C14: a listener that raises does not end the broadcast. Every listener
\* of the clone that is still subscribed at its turn is run, whatever the
\* listeners before it did: its handler is called once when its schema
\* accepts the detail, and it raises otherwise.
C14_BroadcastGoesOn ==
  \A f \in Frames :
    \A id \in VisitedIds(f) \ f.gone :
      f.custom =>
        IF Accepts(subs[id].schema, f.detail)
        THEN CallCount(f, id) = 1
        ELSE CallCount(f, id) = 0 /\ HasRaised(f, id)

\* C14's case: in one broadcast a handler has thrown, a subscriber-side
\* validation has failed, and after each a later listener's handler has
\* been called.
C14_Witness ==
  \E f \in Frames :
    /\ \E r \in DOMAIN f.raised, j \in DOMAIN f.calls :
         /\ f.raised[r].msg = HandlerErrorMsg
         /\ f.raised[r].id < f.calls[j].id
    /\ \E r \in DOMAIN f.raised, j \in DOMAIN f.calls :
         /\ f.raised[r].msg # HandlerErrorMsg
         /\ f.raised[r].id < f.calls[j].id

\* C15 as stated: a publish in whose broadcast a listener raised ends by
\* raising to its caller.
C15_AsStated ==
  (last.op = "return" /\ last.bus \in Buses /\ last.raised > 0)
    => last.outcome # "ok"

\* C15: what a listener raises during a broadcast does not reach the caller
\* of publish. A publish whose payload its schema accepts returns normally,
\* after every listener has had its turn, however many of them raised.
C15_PublishReturns ==
  (last.op = "return" /\ last.bus \in Buses) =>
    /\ last.outcome = "ok"
    /\ last.msg = ""
    /\ last.pending = 0
    /\ Accepts(EventSchema(last.bus, last.name), last.value)

\* C15's case: a publish called by the host has returned, and in its
\* broadcast two listeners raised.
C15_Witness ==
  /\ last.op = "return"
  /\ last.bus \in Buses
  /\ last.depth = 0
  /\ last.raised >= 2

\* C16: a subscribe made by a handler appends its listener to the window's
\* list and leaves every broadcast in progress as it was: the new listener
\* is in no clone and is not run in those broadcasts, in which every
\* listener that is still subscribed at its turn and whose schema accepts
\* the detail has its handler called exactly once. Every publish that
\* starts afterwards has the new listener in its clone, as long as it is
\* subscribed.
C16_SubscribeInHandler ==
  /\ \A f \in Frames :
       /\ \A id \in Range(f.snap) : id <= f.n0
       /\ \A j \in DOMAIN f.calls : f.calls[j].id <= f.n0
       /\ \A r \in DOMAIN f.raised : f.raised[r].id <= f.n0
       /\ \A id \in VisitedIds(f) :
            /\ CallCount(f, id) <= 1
            /\ (id \notin f.gone /\ f.custom
                  /\ Accepts(subs[id].schema, f.detail))
                 => CallCount(f, id) = 1
  /\ (last.op = "subscribe" /\ last.outcome = "ok" /\ last.depth > 0) =>
       /\ listeners = Append(last.pre, last.id)
       /\ \A f \in Frames : last.id \notin Range(f.snap)
  /\ (last.op = "publish" /\ last.outcome = "ok") =>
       \A id \in Created :
         (subs[id].type = last.name /\ id \notin aborted)
           => id \in Range(Top.snap)

\* C16's case: during a broadcast of a name a handler has subscribed a new
\* listener to that name; the broadcast has called its other handlers, the
\* new listener not; a publish of the name made later, by a handler of the
\* same broadcast, has called the new listener's handler.
C16_Witness ==
  /\ Len(stack) = 2
  /\ stack[1].type = stack[2].type
  /\ Len(stack[1].calls) >= 2
  /\ \E id \in Created :
       /\ id > stack[1].n0
       /\ subs[id].type = stack[1].type
       /\ CallCount(stack[1], id) = 0
       /\ CallCount(stack[2], id) = 1

\* C17 (under SpecSingle: one bus, no foreign dispatch): subscriber-side
\* validation never rejects. The listener a broadcast has reached accepts
\* the detail, nothing is raised but what a handler throws, and every
\* listener still subscribed at its turn has had its handler called once,
\* with the value its schema decodes the published payload to.
C17_SingleBus ==
  /\ (stack # <<>> /\ Top.idx <= Len(Top.snap)) =>
       /\ Top.custom
       /\ Accepts(subs[Top.snap[Top.idx]].schema, Top.detail)
  /\ last.op = "invoke" => last.outcome \in {"call", "threw"}
  /\ \A f \in Frames :
       /\ Published(f)
       /\ \A r \in DOMAIN f.raised : f.raised[r].msg = HandlerErrorMsg
       /\ \A id \in VisitedIds(f) \ f.gone : CallCount(f, id) = 1
       /\ \A j \in DOMAIN f.calls :
            f.calls[j].arg = Decoded(EventSchema(f.origin, f.type), f.value)

\* C17's case: a publish under a name whose schema decodes the payload to
\* another value has called the handlers of two listeners.
C17_Witness ==
  \E f \in Frames :
    /\ Decoded(EventSchema(f.origin, f.type), f.value) # f.value
    /\ Len(f.calls) >= 2
    /\ f.calls[1].id # f.calls[2].id
    /\ f.calls[2].arg = Decoded(EventSchema(f.origin, f.type), f.value)

\* C18: the buses share the window. A publish through one bus has in its
\* clone the listeners of its name subscribed through any bus; a listener
\* of another bus, still subscribed at its turn, has its handler called once
\* with the value its own schema decodes the payload to when that schema
\* accepts the payload, and raises its own schema's messages without
\* calling its handler when it does not.
C18_SharedChannel ==
  /\ (last.op = "publish" /\ last.outcome = "ok") =>
       \A id \in Range(last.pre) :
         subs[id].type = last.name => id \in Range(Top.snap)
  /\ \A f \in Frames :
       Published(f) =>
         \A id \in VisitedIds(f) \ f.gone :
           subs[id].bus # f.origin =>
             IF Accepts(subs[id].schema, f.value)
             THEN /\ CallCount(f, id) = 1
                  /\ \A j \in DOMAIN f.calls :
                       f.calls[j].id = id =>
                         f.calls[j].arg = Decoded(subs[id].schema, f.value)
             ELSE /\ CallCount(f, id) = 0
                  /\ \E r \in DOMAIN f.raised :
                       /\ f.raised[r].id = id
                       /\ f.raised[r].msg = Messages(subs[id].schema, f.value)

\* C18's case: a publish through one bus has called the handler of a
\* listener of the other bus, and that handler's publish through its own
\* bus has made a listener of the first bus raise.
C18_Witness ==
  /\ Len(stack) = 2
  /\ stack[1].origin \in Buses
  /\ stack[2].origin \in Buses \ {stack[1].origin}
  /\ \E j \in DOMAIN stack[1].calls :
       /\ stack[1].calls[j].id = stack[2].caller
       /\ subs[stack[2].caller].bus = stack[2].origin
  /\ \E r \in DOMAIN stack[2].raised :
       /\ subs[stack[2].raised[r].id].bus = stack[1].origin
       /\ stack[2].raised[r].msg # HandlerErrorMsg

\* The subscriptions to name n whose unsubscribe function has not been
\* called, ab being the aborted ids.
LiveFor(n, ab) == {id \in Created \ ab : subs[id].type = n}

\* The calls broadcast f has made on handlers subscribed through bus b.
CallsOn(f, b) == {j \in DOMAIN f.calls : subs[f.calls[j].id].bus = b}

\* C19: every subscribe that returns has appended one listener of its own,
\* whatever was subscribed before. A publish broadcasts to as many listeners
\* as there are subscriptions to its name not yet unsubscribed, one for each
\* subscribe call, and when none of them is unsubscribed meanwhile it calls
\* the publishing bus's handlers once for each of that bus's subscriptions.
C19_OneListenerPerSubscribe ==
  /\ (last.op = "subscribe" /\ last.outcome = "ok") =>
       /\ last.id \notin Range(last.pre)
       /\ listeners = Append(last.pre, last.id)
  /\ Len(listeners) = Cardinality(Created \ aborted)
  /\ (last.op = "publish" /\ last.outcome = "ok") =>
       Len(Top.snap) = Cardinality(LiveFor(last.name, last.preAb))
  /\ \A f \in Frames :
       (Published(f) /\ f.gone = {} /\ f.idx > Len(f.snap)) =>
         Cardinality(CallsOn(f, f.origin))
           = Cardinality({id \in LiveFor(f.type, f.ab0) :
                            id <= f.n0 /\ subs[id].bus = f.origin})

\* C19's case: of three subscriptions made through one bus to one name, one
\* was unsubscribed; a publish of the name through that bus has finished its
\* broadcast with two handler calls.
C19_Witness ==
  \E f \in Frames :
    /\ Published(f)
    /\ f.idx > Len(f.snap)
    /\ Cardinality({id \in Created : subs[id].type = f.type
                                       /\ subs[id].bus = f.origin}) = 3
    /\ Cardinality(f.ab0) = 1
    /\ f.gone = {}
    /\ Cardinality(CallsOn(f, f.origin)) = 2

\* C20: a publish made by a handler is over before the broadcast it was
\* made in goes on. While the inner broadcast is in progress no step changes
\* a broadcast below it; the inner broadcast returns only when every
\* listener of its clone has had its turn, and to the handler that
\* published; the outer broadcast then runs its remaining listeners as it
\* would have: in registration order, each still subscribed and accepting
\* listener's handler called once.
C20_NestedPublish ==
  [][ /\ \A k \in 1..(Len(stack) - 1) :
           /\ k <= Len(stack')
           /\ stack'[k] = stack[k]
      /\ Len(stack') < Len(stack) =>
           /\ Top.idx = Len(Top.snap) + 1
           /\ Len(stack') = Len(stack) - 1
           /\ Len(stack) > 1 =>
                Top.caller = stack[Len(stack) - 1].snap[
                               stack[Len(stack) - 1].idx - 1]
      /\ \A f \in Range(stack') :
           /\ \A i, j \in DOMAIN f.calls :
                i < j => f.calls[i].id < f.calls[j].id
           /\ \A id \in VisitedIds(f) \ f.gone :
                (f.custom /\ Accepts(subs'[id].schema, f.detail))
                  => CallCount(f, id) = 1
    ]_vars

\* C20's case: in a broadcast over two listeners or more a handler has
\* published, the inner broadcast has returned, and the outer broadcast has
\* gone on to call the handler of a listener registered after the one that
\* published.
C20_Witness ==
  /\ Len(stack) = 1
  /\ \E id \in Top.inner :
       /\ Len(SubscribedTo(listeners, Top.type)) >= 2
       /\ \E j \in DOMAIN Top.calls : Top.calls[j].id > id

====
